---- MODULE Spec2Model ----
(***************************************************************************)
(* Model of the pending-request store of src/src/token-server.ts: the map  *)
(* tokenRequests, its counter numTokenRequests, the sweep timer, and the   *)
(* operations addTokenRequest, handleAccessToken, clearOldTokenRequests    *)
(* and forceClearOldTokenRequests, driven by the /token and /login         *)
(* handlers and by the interval timer.                                     *)
(*                                                                         *)
(* Time is counted in abstract units; the two program constants are scaled *)
(* down (MAX_REQUEST_LIFETIME from 600000 ms, MAX_TOKEN_REQUESTS from      *)
(* 10000) so that both eviction passes happen within the bounds.           *)
(* Node runs every handler to completion, so each handler is one action,   *)
(* and Date.now() has one value (now) throughout a handler.                *)
(***************************************************************************)
EXTENDS Integers, FiniteSets, Sequences, TLC

\* ---- bounds of the model -------------------------------------------------
MaxTime == 3
MaxResponses == 3
MaxTimeLong == 6
MaxQueryLen == 3

\* ---- program constants (scaled) -------------------------------------------
MAX_REQUEST_LIFETIME == 2
MAX_TOKEN_REQUESTS == 2
\* The repetition count of the /token pattern, /[a-z0-9]{32}/i (scaled).
STATE_LENGTH == 2

\* ---- value domains ---------------------------------------------------------
States == {"a", "b", "c"}
AccessTokens == {"tokA", "tokB"}
Null == "null"
NoResponse == 0
FailPoints == {"none", "end"}
StatesLong == {"a"}
\* The characters query strings are made of: a lower-case letter, an
\* upper-case letter and a character outside [a-z0-9].
Chars == {"a", "Z", "-"}

VARIABLES tokenRequests, numTokenRequests, tokenRequestClearerInterval,
          now, responses, numResponses, thrown

vars == <<tokenRequests, numTokenRequests, tokenRequestClearerInterval,
          now, responses, numResponses, thrown>>

\* thrown: the store operation the last handler called ended by raising.
\* numResponses: the response objects express has handed to /token handlers;
\* responses[w] is the w-th of them.

\* ---- express.Response objects ----------------------------------------------
\* statusCode: the field status() sets (Node's default is 200); json: the
\* Content-type header was set; sent: the status the head went out with (0 if
\* nothing was sent yet); body: the chunks written; finished: calls of end().
FreshResponse ==
  [statusCode |-> 200, json |-> FALSE, sent |-> 0, body |-> <<>>, finished |-> 0]

status(r, code) == [r EXCEPT !.statusCode = code]

header(r) == [r EXCEPT !.json = TRUE]

write(r, chunk) ==
  [r EXCEPT !.sent = IF @ = 0 THEN r.statusCode ELSE @,
            !.body = Append(@, chunk)]

end(r, chunks) ==
  [r EXCEPT !.sent = IF @ = 0 THEN r.statusCode ELSE @,
            !.body = @ \o chunks,
            !.finished = @ + 1]

\* JSON.stringify of an AccessToken object (or of null): a text, not the object.
JSONStringify(v) == IF v = Null THEN <<"null">> ELSE <<"{", v, "}">>

\* ---- the store as a value --------------------------------------------------
\* The operations are functions from store to store; the actions below apply
\* them to the variables.
Store == [tr |-> tokenRequests, num |-> numTokenRequests,
          timer |-> tokenRequestClearerInterval, res |-> responses]

RECURSIVE SumAges(_, _)
SumAges(tr, keys) ==
  IF keys = {} THEN 0
  ELSE LET k == CHOOSE x \in keys : TRUE
       IN (now - tr[k].createdAt) + SumAges(tr, keys \ {k})

MathRound_ceil(x, n) == (x + n - 1) \div n

\* Math.round(x / n) for x >= 0, n > 0: floor(x/n + 1/2).
MathRound(x, n) == (2 * x + n) \div (2 * n)

OldStates_younger(tr, threshold) ==
  {s \in DOMAIN tr : now - tr[s].createdAt < threshold}

OldStates(tr, threshold) ==
  {s \in DOMAIN tr : now - tr[s].createdAt > threshold}

clearOldTokenRequests(st, threshold) ==
  LET old == OldStates(st.tr, threshold)
      num2 == st.num - Cardinality(old)
  IN [tr |-> [s \in DOMAIN st.tr \ old |-> st.tr[s]],
      num |-> num2,
      res |-> [w \in DOMAIN st.res |->
                 IF \E s \in old : st.tr[s].response = w
                 THEN end(status(st.res[w], 408), <<>>)
                 ELSE st.res[w]],
      timer |-> IF num2 = 0 /\ st.timer # "null" THEN "cleared" ELSE st.timer]

calculateMeanTokenRequestLifetime(st) ==
  MathRound(SumAges(st.tr, DOMAIN st.tr), st.num)

forceClearOldTokenRequests(st) ==
  clearOldTokenRequests(st, calculateMeanTokenRequestLifetime(st))

\* Lines 85-90: the capacity-triggered eviction at the head of addTokenRequest.
EvictAtCapacity(st) ==
  IF st.num >= MAX_TOKEN_REQUESTS
  THEN LET s1 == clearOldTokenRequests(st, MAX_REQUEST_LIFETIME)
       IN IF s1.num >= MAX_TOKEN_REQUESTS
          THEN forceClearOldTokenRequests(s1)
          ELSE s1
  ELSE st

\* Lines 92-108: insert, deliver a stored result to the new waiter, or replace.
StoreRequest_replaceAlways(s2, state, response, result) ==
  LET req == [response |-> response, state |-> state,
              createdAt |-> now, result |-> result]
  IN IF state \notin DOMAIN s2.tr
     THEN [s2 EXCEPT !.num = @ + 1,
                     !.tr = [s \in DOMAIN s2.tr \cup {state} |->
                               IF s = state THEN req ELSE s2.tr[s]]]
     ELSE [s2 EXCEPT !.tr[state] = req]

StoreRequest_keepFirst(s2, state, response, result) ==
  LET req == [response |-> response, state |-> state,
              createdAt |-> now, result |-> result]
  IN IF state \notin DOMAIN s2.tr
     THEN [s2 EXCEPT !.num = @ + 1,
                     !.tr = [s \in DOMAIN s2.tr \cup {state} |->
                               IF s = state THEN req ELSE s2.tr[s]]]
     ELSE IF s2.tr[state].result # Null /\ response # NoResponse
     THEN [s2 EXCEPT !.res[response] =
             write(status(@, 200), JSONStringify(s2.tr[state].result))]
     ELSE s2

StoreRequest_keepsCreatedAt(s2, state, response, result) ==
  LET req == [response |-> response, state |-> state,
              createdAt |-> now, result |-> result]
  IN IF state \notin DOMAIN s2.tr
     THEN [s2 EXCEPT !.num = @ + 1,
                     !.tr = [s \in DOMAIN s2.tr \cup {state} |->
                               IF s = state THEN req ELSE s2.tr[s]]]
     ELSE IF s2.tr[state].result # Null /\ response # NoResponse
     THEN [s2 EXCEPT !.res[response] =
             write(status(@, 200), JSONStringify(s2.tr[state].result))]
     ELSE [s2 EXCEPT !.tr[state] =
             [req EXCEPT !.createdAt = s2.tr[state].createdAt]]

StoreRequest(s2, state, response, result) ==
  LET req == [response |-> response, state |-> state,
              createdAt |-> now, result |-> result]
  IN IF state \notin DOMAIN s2.tr
     THEN [s2 EXCEPT !.num = @ + 1,
                     !.tr = [s \in DOMAIN s2.tr \cup {state} |->
                               IF s = state THEN req ELSE s2.tr[s]]]
     ELSE IF s2.tr[state].result # Null /\ response # NoResponse
     THEN [s2 EXCEPT !.res[response] =
             write(status(@, 200), JSONStringify(s2.tr[state].result))]
     ELSE [s2 EXCEPT !.tr[state] = req]

addTokenRequest(st, state, response, result) ==
  LET s3 == StoreRequest(EvictAtCapacity(st), state, response, result)
  IN [s3 EXCEPT !.timer = IF @ = "null" THEN "active" ELSE @]

\* Lines 123-127: the try block when no call of it throws.
DeliverToWaiter_keepsEntry(st, state, token) ==
  LET w == st.tr[state].response
  IN [st EXCEPT !.res[w] =
        end(header(status(@, 200)), <<JSONStringify(token)>>)]

DeliverToWaiter(st, state, token) ==
  LET w == st.tr[state].response
  IN [st EXCEPT !.res[w] =
                  end(header(status(@, 200)), <<JSONStringify(token)>>),
                !.tr = [s \in DOMAIN st.tr \ {state} |-> st.tr[s]]]

\* Lines 123-124 and 128-130: status() and header() ran, end() threw, and the
\* catch block stores the result.
OnWriteFailure_swallow(st, state, token) ==
  LET w == st.tr[state].response
  IN [st EXCEPT !.res[w] = header(status(@, 200))]

OnWriteFailure_keepsWaiter(st, state, token) ==
  LET w == st.tr[state].response
  IN addTokenRequest([st EXCEPT !.res[w] = header(status(@, 200))],
                     state, w, token)

OnWriteFailure(st, state, token) ==
  LET w == st.tr[state].response
  IN addTokenRequest([st EXCEPT !.res[w] = header(status(@, 200))],
                     state, NoResponse, token)

\* handleAccessToken, as a record: the store it leaves, whether it threw and
\* whether it called addTokenRequest.
\* tokenRequests[state] is undefined for a state with no entry, undefined !==
\* null holds, and reading .response of undefined throws a TypeError.
\* fail names the call of the try block that throws ("none": no call does):
\* status() and header() only set fields of the response object, end() is the
\* write to the connection.
handleAccessToken(st, state, token, fail) ==
  IF state \notin DOMAIN st.tr
  THEN [store |-> st, thrown |-> TRUE, added |-> FALSE]
  ELSE IF st.tr[state].response # NoResponse
  THEN IF fail = "none"
       THEN [store |-> DeliverToWaiter(st, state, token),
             thrown |-> FALSE, added |-> FALSE]
       ELSE [store |-> OnWriteFailure(st, state, token),
             thrown |-> FALSE, added |-> TRUE]
  ELSE [store |-> addTokenRequest(st, state, NoResponse, token),
        thrown |-> FALSE, added |-> TRUE]

\* ---- state machine ----------------------------------------------------------
Install(st) ==
  /\ tokenRequests' = st.tr
  /\ numTokenRequests' = st.num
  /\ tokenRequestClearerInterval' = st.timer
  /\ responses' = st.res

Init ==
  /\ tokenRequests = [s \in {} |-> 0]
  /\ numTokenRequests = 0
  /\ tokenRequestClearerInterval = "null"
  /\ now = 0
  /\ responses = [w \in 1..MaxResponses |-> FreshResponse]
  /\ numResponses = 0
  /\ thrown = FALSE

\* GET /token with a well-formed state: res is a new response object.
GetToken(state) ==
  /\ numResponses < MaxResponses
  /\ Install(addTokenRequest(Store, state, numResponses + 1, Null))
  /\ numResponses' = numResponses + 1
  /\ thrown' = FALSE
  /\ UNCHANGED now

\* GET /login, once the provider answered 200: handleAccessToken(state, token).
\* Only a call that finds a waiter enters the try block, so only it can fail.
Login(state, token, fail) ==
  /\ fail # "none" => /\ state \in DOMAIN tokenRequests
                      /\ tokenRequests[state].response # NoResponse
  /\ LET out == handleAccessToken(Store, state, token, fail)
     IN /\ Install(out.store)
        /\ thrown' = out.thrown
  /\ UNCHANGED <<now, numResponses>>

\* The interval timer calls clearOldTokenRequests() with the default threshold.
\* The period is not modelled: a sweep that finds nothing old changes nothing.
Sweep ==
  /\ tokenRequestClearerInterval = "active"
  /\ Install(clearOldTokenRequests(Store, MAX_REQUEST_LIFETIME))
  /\ thrown' = FALSE
  /\ UNCHANGED <<now, numResponses>>

Tick ==
  /\ now < MaxTime
  /\ now' = now + 1
  /\ UNCHANGED <<tokenRequests, numTokenRequests, tokenRequestClearerInterval,
                 responses, numResponses, thrown>>

Next ==
  \/ \E state \in States : GetToken(state)
  \/ \E state \in States, token \in AccessTokens, fail \in FailPoints :
       Login(state, token, fail)
  \/ Sweep
  \/ Tick

Spec == Init /\ [][Next]_vars

\* The same handlers over a longer stretch of time and one correlation token:
\* long enough for an entry to age out, the store to empty, and a second
\* entry to age out in turn.
TickLong ==
  /\ now < MaxTimeLong
  /\ now' = now + 1
  /\ UNCHANGED <<tokenRequests, numTokenRequests, tokenRequestClearerInterval,
                 responses, numResponses, thrown>>

NextLong ==
  \/ \E state \in StatesLong : GetToken(state)
  \/ \E state \in StatesLong, token \in AccessTokens, fail \in FailPoints :
       Login(state, token, fail)
  \/ Sweep
  \/ TickLong

\* The event loop runs the interval timer's callback while the timer is
\* scheduled, and the clock advances.
FairSpec == Init /\ [][NextLong]_vars /\ WF_vars(Sweep) /\ WF_vars(TickLong)

\* ---- the /token handler with an arbitrary state parameter ------------------
\* req.query.state: absent (typeof is "undefined") or a string of characters.
RECURSIVE Strings(_)
Strings(n) ==
  IF n = 0 THEN {<<>>}
  ELSE LET shorter == Strings(n - 1)
       IN shorter \cup {Append(x, c) : x \in {y \in shorter : Len(y) = n - 1},
                                          c \in Chars}

Queries ==
  {[type |-> "undefined", chars |-> <<>>]}
    \cup {[type |-> "string", chars |-> x] : x \in Strings(MaxQueryLen)}

\* The i flag: the pattern is matched without regard to case.
ToLower(c) == IF c = "Z" THEN "z" ELSE c

\* The character class [a-z0-9], on the characters in use.
InClass(c) == c \in {"a", "z", "0", "9"}

\* state.match(/[a-z0-9]{32}/i): the pattern has no anchors, so it matches
\* when STATE_LENGTH consecutive characters of the class occur anywhere.
Matches(chars) ==
  \E i \in 1..(Len(chars) - STATE_LENGTH + 1) :
    \A j \in i..(i + STATE_LENGTH - 1) : InClass(ToLower(chars[j]))

\* Lines 136-146: the whole handler.
TokenHandler(q) ==
  IF q.type = "string" /\ Matches(q.chars)
  THEN GetToken(q.chars)
  ELSE /\ numResponses < MaxResponses
       /\ responses' = [responses EXCEPT ![numResponses + 1] =
                          end(status(@, 400), <<>>)]
       /\ numResponses' = numResponses + 1
       /\ thrown' = FALSE
       /\ UNCHANGED <<tokenRequests, numTokenRequests,
                      tokenRequestClearerInterval, now>>

NextQuery == \E q \in Queries : TokenHandler(q)

QuerySpec == Init /\ [][NextQuery]_vars

\* ---- properties ----------------------------------------------------------------
Attached(w) == \E s \in DOMAIN tokenRequests : tokenRequests[s].response = w

AttachedNext(w) == \E s \in DOMAIN tokenRequests' : tokenRequests'[s].response = w

\* The entry of state is still in the store after the capacity-triggered
\* eviction that a call of addTokenRequest in this state begins with.
SurvivesEviction(state) == state \in DOMAIN EvictAtCapacity(Store).tr

\* C1: a callback delivery for a token with no entry stores the result as an
\* unmatched entry (no waiter, result set), for a later poll to pick up.
C1_UnmatchedDeliveryStored ==
  [][\A s \in States, t \in AccessTokens :
       (s \notin DOMAIN tokenRequests /\ Login(s, t, "none"))
       => /\ s \in DOMAIN tokenRequests'
          /\ tokenRequests'[s].response = NoResponse
          /\ tokenRequests'[s].result = t]_vars

\* C2: a callback delivery that finds a waiter and no result, and whose write
\* succeeds, sends 200 with exactly the delivered result as JSON body to that
\* waiter, closes the response and removes the entry, all in the one step.
C2_DeliveryToWaiter ==
  [][\A s \in States, t \in AccessTokens :
       (/\ s \in DOMAIN tokenRequests
        /\ tokenRequests[s].response # NoResponse
        /\ tokenRequests[s].result = Null
        /\ Login(s, t, "none"))
       => /\ responses'[tokenRequests[s].response] =
               [statusCode |-> 200, json |-> TRUE, sent |-> 200,
                body |-> << <<"{", t, "}">> >>, finished |-> 1]
          /\ s \notin DOMAIN tokenRequests']_vars

\* A waiter was answered 200 and closed, and its entry is gone.
C2_Witness ==
  \E w \in 1..numResponses :
    /\ responses[w].sent = 200
    /\ responses[w].finished = 1
    /\ responses[w].body # <<>>
    /\ ~Attached(w)

WaitingStale(w) ==
  \E s \in DOMAIN tokenRequests :
    /\ tokenRequests[s].response = w
    /\ now - tokenRequests[s].createdAt > MAX_REQUEST_LIFETIME

TimedOut(w) ==
  /\ ~Attached(w)
  /\ responses[w].sent = 408
  /\ responses[w].finished = 1

\* The waiter left the store another way: its token was delivered, or a later
\* poll or delivery took its place.
Resolved(w) == ~Attached(w) /\ responses[w].sent # 408

\* C3: with time advancing and the sweep timer firing fairly, a waiter still
\* attached when its entry is older than the lifetime ceiling is eventually
\* sent exactly one 408 and its entry removed (unless its token is delivered),
\* after any prior sequence of operations.
C3_StaleWaiterTimesOut ==
  \A w \in 1..MaxResponses : WaitingStale(w) ~> (TimedOut(w) \/ Resolved(w))

\* C4: the store never holds more than MAX_TOKEN_REQUESTS entries.
C4_CapacityCeiling == Cardinality(DOMAIN tokenRequests) <= MAX_TOKEN_REQUESTS

\* C5 as claimed: in every store state, a poll for a token whose entry holds
\* a result writes 200 and exactly that result to the new waiter in the same
\* call and leaves the entry unchanged.
C5_ReplayInEveryState ==
  [][\A s \in States :
       (/\ s \in DOMAIN tokenRequests
        /\ tokenRequests[s].result # Null
        /\ GetToken(s))
       => /\ responses'[numResponses + 1].sent = 200
          /\ responses'[numResponses + 1].body =
               << <<"{", tokenRequests[s].result, "}">> >>
          /\ s \in DOMAIN tokenRequests'
          /\ tokenRequests'[s] = tokenRequests[s]]_vars

\* C5 amended: the same, for an entry that the capacity-triggered eviction at
\* the head of the call does not remove (none runs below the ceiling).
C5_ReplayOfSurvivingEntry ==
  [][\A s \in States :
       (/\ s \in DOMAIN tokenRequests
        /\ tokenRequests[s].result # Null
        /\ SurvivesEviction(s)
        /\ GetToken(s))
       => /\ responses'[numResponses + 1].sent = 200
          /\ responses'[numResponses + 1].body =
               << <<"{", tokenRequests[s].result, "}">> >>
          /\ s \in DOMAIN tokenRequests'
          /\ tokenRequests'[s] = tokenRequests[s]]_vars

\* A poll was handed a stored result (written, the response left open) and
\* the entry with that result is still in the store.
C5_Witness ==
  \E w \in 1..numResponses, s \in DOMAIN tokenRequests :
    /\ responses[w].sent = 200
    /\ responses[w].finished = 0
    /\ tokenRequests[s].result # Null
    /\ responses[w].body = << <<"{", tokenRequests[s].result, "}">> >>

\* No response object is the waiter of two entries.
OneWaiterPerToken ==
  \A s1, s2 \in DOMAIN tokenRequests :
    (s1 # s2 /\ tokenRequests[s1].response # NoResponse)
    => tokenRequests[s1].response # tokenRequests[s2].response

\* C6 as claimed: a second poll for a token whose entry has a waiter and no
\* result leaves the entry with the second waiter only, and the first waiter
\* is sent nothing by that operation.
C6_FirstWaiterNeverAnswered ==
  [][\A s \in States :
       (/\ s \in DOMAIN tokenRequests
        /\ tokenRequests[s].response # NoResponse
        /\ tokenRequests[s].result = Null
        /\ GetToken(s))
       => /\ tokenRequests'[s].response = numResponses + 1
          /\ responses'[tokenRequests[s].response] =
               responses[tokenRequests[s].response]]_vars

\* C6 amended: each response is the waiter of at most one token; a second
\* poll whose call does not evict the entry first leaves the entry with the
\* second waiter only and sends the first waiter nothing; and a waiter that
\* is no longer attached is never attached again nor sent anything.
C6_SupersededWaiterSilent ==
  [][/\ OneWaiterPerToken'
     /\ \A s \in States :
          (/\ s \in DOMAIN tokenRequests
           /\ tokenRequests[s].response # NoResponse
           /\ tokenRequests[s].result = Null
           /\ SurvivesEviction(s)
           /\ GetToken(s))
          => /\ tokenRequests'[s].response = numResponses + 1
             /\ tokenRequests'[s].result = Null
             /\ responses'[tokenRequests[s].response] =
                  responses[tokenRequests[s].response]
             /\ ~AttachedNext(tokenRequests[s].response)
     /\ \A w \in 1..numResponses :
          ~Attached(w) => (responses'[w] = responses[w] /\ ~AttachedNext(w))]_vars

\* A waiter was superseded: it is attached to no entry and was sent nothing,
\* while a later waiter holds an entry.
C6_Witness ==
  \E w \in 1..numResponses :
    /\ ~Attached(w)
    /\ responses[w] = FreshResponse
    /\ \E w2 \in (w + 1)..numResponses : Attached(w2)

\* C7: a call of addTokenRequest on a store holding at least
\* MAX_TOKEN_REQUESTS entries evicts at least one entry, whatever the ages.
C7_EvictionMakesRoom ==
  [][\A s \in States :
       (/\ Cardinality(DOMAIN tokenRequests) >= MAX_TOKEN_REQUESTS
        /\ \/ GetToken(s)
           \/ \E t \in AccessTokens, f \in FailPoints :
                Login(s, t, f) /\ handleAccessToken(Store, s, t, f).added)
       => Cardinality(DOMAIN tokenRequests')
            < Cardinality(DOMAIN tokenRequests \cup {s})]_vars

\* C8: the sweep timer is running exactly while the store holds an entry.
C8_TimerTracksOccupancy ==
  (tokenRequestClearerInterval = "active") <=> (DOMAIN tokenRequests # {})

\* C9: no store operation ends by raising an exception to its caller.
C9_NeverRaises == ~thrown

\* C10: a callback delivery that finds a waiter and whose write fails does not
\* raise, and leaves an entry for the token holding the delivered result and
\* no waiter.
C10_WriteFailureFallback ==
  [][\A s \in States, t \in AccessTokens :
       (/\ s \in DOMAIN tokenRequests
        /\ tokenRequests[s].response # NoResponse
        /\ Login(s, t, "end"))
       => /\ ~thrown'
          /\ s \in DOMAIN tokenRequests'
          /\ tokenRequests'[s].result = t
          /\ tokenRequests'[s].response = NoResponse]_vars

\* A write failed (the waiter's header is set, no 200 went out) and the entry
\* of some token holds a result and no waiter.
C10_Witness ==
  /\ \E w \in 1..numResponses : responses[w].json /\ responses[w].sent # 200
  /\ \E s \in DOMAIN tokenRequests :
       tokenRequests[s].result # Null /\ tokenRequests[s].response = NoResponse

\* The shape the interface documents: a string of exactly STATE_LENGTH
\* characters, each a letter or digit in either case.
ExactShape(q) ==
  /\ q.type = "string"
  /\ Len(q.chars) = STATE_LENGTH
  /\ \A j \in 1..Len(q.chars) : q.chars[j] \in {"a", "Z"}

\* C11: a /token request whose state is not a string of exactly STATE_LENGTH
\* characters of [a-z0-9] in either case is answered 400 at once and leaves
\* entries, counter and timer as they were.
C11_MalformedStateRejected ==
  [][\A q \in Queries :
       (~ExactShape(q) /\ TokenHandler(q))
       => /\ responses'[numResponses + 1].sent = 400
          /\ responses'[numResponses + 1].finished = 1
          /\ UNCHANGED <<tokenRequests, numTokenRequests,
                         tokenRequestClearerInterval>>]_vars

\* ---- the mean-age pass, seen from a step that calls addTokenRequest ---------
\* The store the second pass starts from, and whether a call made now runs it.
MeanPassInput == clearOldTokenRequests(Store, MAX_REQUEST_LIFETIME)

MeanPassRuns ==
  /\ numTokenRequests >= MAX_TOKEN_REQUESTS
  /\ MeanPassInput.num >= MAX_TOKEN_REQUESTS

\* The step is a handler's call of addTokenRequest for state s: a poll, or a
\* delivery that falls back to storing its result (handleAccessToken reports
\* added), whose token and failure point can be read off the two states.
AddStep(s) ==
  /\ s \in DOMAIN tokenRequests'
  /\ \/ numResponses' = numResponses + 1 /\ GetToken(s)
     \/ /\ numResponses' = numResponses
        /\ now' = now
        /\ s \in DOMAIN tokenRequests
        /\ tokenRequests'[s].response = NoResponse
        /\ tokenRequests'[s].result \in AccessTokens
        /\ Login(s, tokenRequests'[s].result,
                 IF tokenRequests[s].response # NoResponse THEN "end" ELSE "none")

AgeOf(k) == now - tokenRequests[k].createdAt

\* The entries of before that the pass removed in this step. The entry of s
\* itself is put back by the insertion that follows, so for it the pass's
\* own result is read.
MeanPassRemoved(s, before) ==
  {k \in before :
     IF k = s
     THEN k \notin DOMAIN forceClearOldTokenRequests(MeanPassInput).tr
     ELSE k \notin DOMAIN tokenRequests'}

RECURSIVE AgeSum(_)
AgeSum(keys) ==
  IF keys = {} THEN 0
  ELSE LET k == CHOOSE x \in keys : TRUE
       IN AgeOf(k) + AgeSum(keys \ {k})

C13_SurvivorsWithinMean ==
  [][\A s \in States :
       (numTokenRequests >= MAX_TOKEN_REQUESTS /\ AddStep(s) /\ MeanPassRuns)
       => LET before == DOMAIN MeanPassInput.tr
              kept == before \ MeanPassRemoved(s, before)
              n == Cardinality(before)
              sum == AgeSum(before)
          IN \A k \in kept : AgeOf(k) * n <= sum]_vars

\* C13 amended: no survivor is older than that mean rounded to the nearest
\* whole unit (halves upwards), that is, than the mean plus one half.
C13_SurvivorsWithinRoundedMean ==
  [][\A s \in States :
       (numTokenRequests >= MAX_TOKEN_REQUESTS /\ AddStep(s) /\ MeanPassRuns)
       => LET before == DOMAIN MeanPassInput.tr
              kept == before \ MeanPassRemoved(s, before)
              n == Cardinality(before)
              sum == AgeSum(before)
          IN \A k \in kept : 2 * AgeOf(k) * n <= 2 * sum + n]_vars

\* The counter went past the ceiling, so a mean-age pass ran and left the
\* store full; more entries than the ceiling are in the store, so some of
\* them went through that pass.
C13_Witness ==
  /\ numTokenRequests > MAX_TOKEN_REQUESTS
  /\ Cardinality(DOMAIN tokenRequests) > MAX_TOKEN_REQUESTS

\* C14: the threshold of the second pass is the mean age of exactly the
\* entries in the store (the sum of their ages over their number, rounded).
C14_ThresholdIsMeanOfEntries ==
  [][\A s \in States :
       (numTokenRequests >= MAX_TOKEN_REQUESTS /\ AddStep(s) /\ MeanPassRuns
        /\ DOMAIN MeanPassInput.tr # {})
       => calculateMeanTokenRequestLifetime(MeanPassInput)
            = (2 * AgeSum(DOMAIN MeanPassInput.tr)
                 + Cardinality(DOMAIN MeanPassInput.tr))
              \div (2 * Cardinality(DOMAIN MeanPassInput.tr))]_vars

\* The step replaces the entry of s: addTokenRequest is called for s, finds
\* its entry after the eviction, and does not answer from a stored result.
ReplaceStep(s) ==
  /\ s \in DOMAIN tokenRequests
  /\ AddStep(s)
  /\ SurvivesEviction(s)
  /\ ~(tokenRequests[s].result # Null /\ numResponses' # numResponses)

\* C15 as claimed: createdAt is set when the entry of a token is first
\* created and is not changed when a later poll or callback replaces it.
C15_CreatedAtKeptOnReplace ==
  [][\A s \in States :
       ReplaceStep(s) => tokenRequests'[s].createdAt = tokenRequests[s].createdAt]_vars

\* C15 amended: createdAt is set to the current time when the entry is
\* created and again whenever a later poll or callback replaces it, so the
\* age used for eviction is measured from the latest replacement; the
\* createdAt of every other entry is left as it was.
C15_CreatedAtRefreshedOnReplace ==
  [][\A s \in States :
       (AddStep(s) /\ (s \notin DOMAIN tokenRequests \/ ReplaceStep(s)))
       => /\ tokenRequests'[s].createdAt = now
          /\ \A k \in (DOMAIN tokenRequests \cap DOMAIN tokenRequests') \ {s} :
               tokenRequests'[k].createdAt = tokenRequests[k].createdAt]_vars

\* A waiter was superseded by a poll made after time 0, and the entry carries
\* the time of that later poll.
C15_Witness ==
  \E w1, w2 \in 1..numResponses, s \in DOMAIN tokenRequests :
    /\ w1 < w2
    /\ ~Attached(w1)
    /\ responses[w1] = FreshResponse
    /\ tokenRequests[s].response = w2
    /\ tokenRequests[s].createdAt = now
    /\ now > 0
    /\ numTokenRequests = 1

\* C16 as claimed: once the entry of a token holds a result, no later
\* operation changes that result for as long as the entry exists.
C16_ResultImmutable ==
  [][\A s \in States :
       (/\ s \in DOMAIN tokenRequests
        /\ tokenRequests[s].result # Null
        /\ s \in DOMAIN tokenRequests'
        /\ ~(AddStep(s) /\ ~SurvivesEviction(s)))
       => tokenRequests'[s].result = tokenRequests[s].result]_vars

\* C16 amended: once the entry of a token holds a result, no poll and no
\* sweep changes it for as long as the entry exists; only a later callback
\* delivery for the same token does, which replaces it with the result it
\* delivers.
C16_ResultChangedOnlyByDelivery ==
  [][\A s \in States :
       (/\ s \in DOMAIN tokenRequests
        /\ tokenRequests[s].result # Null
        /\ s \in DOMAIN tokenRequests'
        /\ ~(AddStep(s) /\ ~SurvivesEviction(s))
        /\ tokenRequests'[s].result # tokenRequests[s].result)
       => /\ numResponses' = numResponses
          /\ tokenRequests'[s].result \in AccessTokens
          /\ Login(s, tokenRequests'[s].result, "none")]_vars

\* One write failed and stored a result, a poll was answered from it, and the
\* entry now holds another result: a second delivery replaced it.
C16_Witness ==
  /\ numResponses = 2
  /\ responses[1].json /\ responses[1].sent = 0
  /\ responses[2].sent = 200 /\ responses[2].finished = 0
  /\ \E s \in DOMAIN tokenRequests :
       /\ tokenRequests[s].result # Null
       /\ responses[2].body # << <<"{", tokenRequests[s].result, "}">> >>

\* C17: every entry holds a waiter and no result, or a result and no waiter.
C17_WaiterOrResult ==
  \A s \in DOMAIN tokenRequests :
    (tokenRequests[s].response # NoResponse) # (tokenRequests[s].result # Null)

\* Entries of both kinds are in the store.
C17_Witness ==
  \E s1, s2 \in DOMAIN tokenRequests :
    /\ tokenRequests[s1].response # NoResponse
    /\ tokenRequests[s2].result # Null

\* C18: no waiter is sent more than one response: once a response has gone
\* out to it (200 or 408) nothing more is sent or set on it, it is closed at
\* most once, and it is handed at most one body.
C18_AtMostOneResponse ==
  [][\A w \in 1..MaxResponses :
       /\ responses[w].sent # 0 => responses'[w] = responses[w]
       /\ responses'[w].finished <= 1
       /\ Len(responses'[w].body) <= 1
       /\ responses'[w].sent # 0 => responses'[w].statusCode = responses'[w].sent
       /\ responses'[w].sent = 408 => responses'[w].body = <<>>]_vars

\* A waiter whose 200 could not be written was later timed out with 408, and
\* another waiter was answered 200.
C18_Witness ==
  /\ \E w \in 1..numResponses : responses[w].json /\ responses[w].sent = 408
  /\ \E w \in 1..numResponses : responses[w].sent = 200

\* C19: numTokenRequests is the number of entries in tokenRequests.
C19_CounterMatchesEntries ==
  numTokenRequests = Cardinality(DOMAIN tokenRequests)

\* C20: a waiter that was sent a result with status 200 has been closed.
C20_AnsweredWaiterClosed ==
  \A w \in 1..numResponses :
    responses[w].sent = 200 => responses[w].finished >= 1
====
